---- MODULE Spec2Model ----
(***************************************************************************)
(* FakeExecutor, the in-memory harness of aptos-move/e2e-tests              *)
(* (src/aptos-move/e2e-tests/src/executor.rs).                              *)
(*                                                                         *)
(* The harness owns a data store, a block time, an optional golden-output  *)
(* logger and an optional trace directory.  Blocks of transactions are run *)
(* through the sequential VM and the parallel VM; both are collaborators   *)
(* outside executor.rs and appear here as oracles whose results are drawn  *)
(* from bounded sets.  The trace directory is a small file system.         *)
(*                                                                         *)
(* A panic ends the test: after a panic no further harness operation runs, *)
(* and the state left behind by the panicking call stays observable.       *)
(***************************************************************************)
EXTENDS Integers, Sequences, FiniteSets, TLC

(***************************************************************************)
(* Bounds                                                                  *)
(***************************************************************************)
\* number of harness calls in one test
MaxOps == 2
\* number of harness calls in one test that records a trace
MaxTraceOps == 3
\* largest block time; stands for u64::MAX
MaxTime == 2
\* number of harness calls in one test that invokes functions directly and reads slots
MaxStoreOps == 2
\* number of calls of FakeExecutor::trace one thread makes
MaxTraceCalls == 2

(***************************************************************************)
(* Values                                                                  *)
(***************************************************************************)
\* StateKey: the slots of the data store
Keys == {"validator_set", "version", "account"}

KeyCode(k) == CASE k = "validator_set" -> 1 [] k = "version" -> 2 [] OTHER -> 3

\* WriteOp
W(k, v) == [key |-> k, op |-> "Write", val |-> v]
D(k) == [key |-> k, op |-> "Delete", val |-> 0]

\* the genesis write set: installs the on-chain configs
GenesisWriteSet == << W("validator_set", 1), W("version", 1) >>

\* ContractEvent: its key and whether its payload decodes as NewBlockEvent
NewBlockEv == [key |-> "new_block", decodes |-> TRUE]

\* TransactionOutput
TxOut(st, ws, evs, gas) == [status |-> st, write_set |-> ws, events |-> evs, gas |-> gas]

\* TransactionStatus: Keep(ExecutionStatus) | Discard(StatusCode) | Retry
Keep(exec) == [kind |-> "Keep", exec |-> exec]
Discard == [kind |-> "Discard", exec |-> "none"]
Retry == [kind |-> "Retry", exec |-> "none"]

KeepSuccessOut == TxOut(Keep("Success"), << W("account", 1) >>, << NewBlockEv >>, 1)
KeepAbortOut == TxOut(Keep("Abort"), << W("account", 2) >>, << NewBlockEv >>, 2)
DiscardOut == TxOut(Discard, << >>, << >>, 0)
RetryOut == TxOut(Retry, << >>, << >>, 0)

Outputs == {KeepSuccessOut, KeepAbortOut, DiscardOut, RetryOut}

\* outputs of a block prologue whose first event is not the block-start event: one with
\* another key, one with the block-start key and a payload that is no NewBlockEvent
OtherKeyOut ==
    TxOut(Keep("Success"), << W("account", 1) >>, << [key |-> "other", decodes |-> TRUE] >>, 1)
UndecodableOut ==
    TxOut(Keep("Success"), << W("account", 1) >>,
          << [key |-> "new_block", decodes |-> FALSE] >>, 1)

\* Result<Vec<TransactionOutput>, VMStatus>
Ok(outs) == [ok |-> TRUE, outs |-> outs, err |-> 0]
Err(e) == [ok |-> FALSE, outs |-> << >>, err |-> e]

\* Transaction
UserTransaction(id) == [tag |-> "UserTransaction", arg |-> id]
BlockMetadata(ts) == [tag |-> "BlockMetadata", arg |-> ts]

\* SignedTransaction values the tests submit
SignedTxns == {1, 2}

\* blocks of signed transactions the tests submit
SignedBlocks == { << 1 >>, << 2, 1 >> }

(***************************************************************************)
(* The VM oracles.  AptosVM::execute_block and ParallelAptosVM::execute_-  *)
(* block live outside executor.rs; all that is known of them is their      *)
(* interface: a block and a state view in, Ok(outputs) or Err(status) out. *)
(***************************************************************************)
VMResults ==
    {Err(1), Ok(<< >>)} \cup {Ok(<< o >>) : o \in Outputs} \cup {Ok(<< KeepAbortOut, KeepSuccessOut >>)}

\* what the parallel VM may answer when it does not agree with the sequential one
DivergentResults == {Err(2), Ok(<< KeepSuccessOut >>)}

\* what the VMs may answer for a block prologue beyond VMResults
PrologueResults == {Ok(<< OtherKeyOut >>), Ok(<< UndecodableOut >>)}

AptosVM_execute_block(txn_block, store) ==
    IF txn_block # << >> /\ txn_block[1].tag = "BlockMetadata"
    THEN VMResults \cup PrologueResults
    ELSE VMResults

ParallelAptosVM_execute_block(txn_block, store, output) == {output} \cup DivergentResults

(***************************************************************************)
(* FakeDataStore                                                           *)
(***************************************************************************)
EmptyStore == [k \in {} |-> 0]

ApplyOp(store, w) ==
    IF w.op = "Write"
    THEN [k \in DOMAIN store \cup {w.key} |-> IF k = w.key THEN w.val ELSE store[k]]
    ELSE [k \in DOMAIN store \ {w.key} |-> store[k]]

RECURSIVE add_write_set(_, _)
add_write_set(store, ws) ==
    IF ws = << >> THEN store ELSE add_write_set(ApplyOp(store, Head(ws)), Tail(ws))

\* OnChainConfig::fetch_config for ValidatorSet and Version: Some(config) or None
fetch_config(store, k) ==
    IF k \in DOMAIN store THEN [some |-> TRUE, val |-> store[k]] ELSE [some |-> FALSE, val |-> 0]

(***************************************************************************)
(* bcs::to_bytes: length-prefixed, field after field                       *)
(***************************************************************************)
StatusCode(st) ==
    CASE st = Keep("Success") -> 0 [] st = Keep("Abort") -> 1 [] st = Discard -> 2 [] OTHER -> 3

RECURSIVE SerWriteOps(_)
SerWriteOps(ws) ==
    IF ws = << >> THEN << >>
    ELSE << KeyCode(Head(ws).key), IF Head(ws).op = "Write" THEN 1 ELSE 0, Head(ws).val >>
             \o SerWriteOps(Tail(ws))

RECURSIVE SerEvents(_)
SerEvents(evs) ==
    IF evs = << >> THEN << >>
    ELSE << IF Head(evs).key = "new_block" THEN 1 ELSE 0, IF Head(evs).decodes THEN 1 ELSE 0 >>
             \o SerEvents(Tail(evs))

SerOutput(o) ==
    << StatusCode(o.status), Len(o.write_set) >> \o SerWriteOps(o.write_set)
        \o << Len(o.events) >> \o SerEvents(o.events) \o << o.gas >>

SerTxn(t) == << IF t.tag = "UserTransaction" THEN 0 ELSE 1, t.arg >>

\* a map is written as its number of entries, then the entries in key order
RECURSIVE SerEntries(_, _)
SerEntries(store, ks) ==
    IF ks = {} THEN << >>
    ELSE LET k == CHOOSE x \in ks : \A y \in ks : KeyCode(x) <= KeyCode(y)
         IN << KeyCode(k), store[k] >> \o SerEntries(store, ks \ {k})

SerStore(store) == << Cardinality(DOMAIN store) >> \o SerEntries(store, DOMAIN store)

\* TraceSeqMapping = (usize, Vec<usize>, Vec<usize>)
SerTraceMap(m) == << m[1], Len(m[2]) >> \o m[2] \o << Len(m[3]) >> \o m[3]

(***************************************************************************)
(* The trace directory: <trace_root>/<test_name>/ with the files name and  *)
(* error and the subdirectories meta, data, input and output.  A directory *)
(* is a function from file names to file contents.                         *)
(***************************************************************************)
EmptyDir == [n \in {} |-> << >>]

NoTraceDir ==
    [exists |-> FALSE, root |-> EmptyDir, meta |-> EmptyDir, data |-> EmptyDir,
     input |-> EmptyDir, output |-> EmptyDir]

\* fs::create_dir_all, the name file and the four fs::create_dir calls
FreshTraceDir(name_bytes) ==
    [exists |-> TRUE, root |-> ("name" :> name_bytes), meta |-> EmptyDir, data |-> EmptyDir,
     input |-> EmptyDir, output |-> EmptyDir]

SubDirs == {"meta", "data", "input", "output"}

\* as if the file were opened with create(true) alone: a file that is there is opened as
\* it is
CreateOrOpen(dir, name, bytes) ==
    [ok |-> TRUE, dir |-> IF name \in DOMAIN dir THEN dir ELSE (name :> bytes) @@ dir]

\* as if the file were opened with create(true).truncate(true) instead of create_new(true)
CreateTruncating(dir, name, bytes) ==
    [ok |-> TRUE, dir |-> [n \in DOMAIN dir \cup {name} |-> IF n = name THEN bytes ELSE dir[n]]]

\* OpenOptions::new().write(true).create_new(true).open(dir.join(name)), then write_all
CreateNew(dir, name, bytes) ==
    IF name \in DOMAIN dir
    THEN [ok |-> FALSE, dir |-> dir]
    ELSE [ok |-> TRUE, dir |-> (name :> bytes) @@ dir]

\* FakeExecutor::trace: the sequence number is the number of entries of the directory
trace(dir, bytes) ==
    LET seq == Cardinality(DOMAIN dir)
        made == CreateNew(dir, seq, bytes)
    IN [ok |-> made.ok, seq |-> seq, dir |-> made.dir]

\* as if the loops walked their items from the last to the first
RECURSIVE trace_each_reversed(_, _, _)
trace_each_reversed(dir, items, seqs) ==
    IF items = << >>
    THEN [ok |-> TRUE, seqs |-> seqs, dir |-> dir]
    ELSE LET t == trace(dir, items[Len(items)])
         IN IF t.ok
            THEN trace_each_reversed(t.dir, SubSeq(items, 1, Len(items) - 1), Append(seqs, t.seq))
            ELSE [ok |-> FALSE, seqs |-> seqs, dir |-> t.dir]

\* the loops `for txn in &txn_block` and `for res in results`: one trace call per item,
\* in order, the sequence numbers pushed onto the list; a failing call ends the loop
RECURSIVE trace_each(_, _, _)
trace_each(dir, items, seqs) ==
    IF items = << >>
    THEN [ok |-> TRUE, seqs |-> seqs, dir |-> dir]
    ELSE LET t == trace(dir, Head(items))
         IN IF t.ok
            THEN trace_each(t.dir, Tail(items), Append(seqs, t.seq))
            ELSE [ok |-> FALSE, seqs |-> seqs, dir |-> t.dir]

(***************************************************************************)
(* Results of a harness call, and the steps it went through                *)
(***************************************************************************)
Returned(res) ==
    [kind |-> IF res.ok THEN "Ok" ELSE "Err", outs |-> res.outs, err |-> res.err, why |-> "none"]
Panic(why) == [kind |-> "Panic", outs |-> << >>, err |-> 0, why |-> why]
Unit == [kind |-> "Ok", outs |-> << >>, err |-> 0, why |-> "none"]

Ev(what, i) == [ev |-> what, idx |-> i]

\* the operations of a write set handed to apply_write_set, in order
WriteLog(write_set) ==
    [i \in 1..Len(write_set) |-> [ev |-> "write_op", idx |-> i, op |-> write_set[i]]]
Evs(what, n) == [i \in 1..n |-> Ev(what, i)]

\* TraceSeqMapping::default()
DefaultTraceMap == << 0, << >>, << >> >>

\* as if the comparison of the two results were left out
assert_eq_skipped(output, parallel_output) == TRUE

\* assert_eq!(output, parallel_output)
assert_eq(output, parallel_output) == output = parallel_output

(***************************************************************************)
(* FakeExecutor::execute_transaction_block (&self).  td: trace_dir is      *)
(* Some; eo: executed_output is Some; output and parallel_output are what  *)
(* the two VMs answer for this block.                                      *)
(***************************************************************************)
\* x, computed once, handed to F
Let1(x, F(_)) == CHOOSE y \in {F(v) : v \in {x}} : TRUE

\* "dump serialized transaction details before execution, if tracing"
trace_inputs(td, store, f, txn_block) ==
    IF ~td
    THEN [ok |-> TRUE, fs |-> f, log |-> << >>, map0 |-> 0, map1 |-> << >>]
    ELSE Let1(trace(f.data, SerStore(store)), LAMBDA snap :
           IF ~snap.ok
           THEN [ok |-> FALSE, fs |-> f, log |-> << >>, map0 |-> 0, map1 |-> << >>]
           ELSE Let1(trace_each(f.input,
                                [i \in 1..Len(txn_block) |-> SerTxn(txn_block[i])], << >>),
                     LAMBDA ins :
                       [ok |-> ins.ok,
                        fs |-> [f EXCEPT !.data = snap.dir, !.input = ins.dir],
                        log |-> << Ev("snapshot", 1) >> \o Evs("input", Len(ins.seqs)),
                        map0 |-> snap.seq,
                        map1 |-> ins.seqs]))

\* as if the sequence numbers of the outputs were not pushed onto trace_map.2
trace_outputs_unmapped(f, output) ==
    IF output.ok
    THEN Let1(trace_each(f.output,
                         [i \in 1..Len(output.outs) |-> SerOutput(output.outs[i])], << >>),
              LAMBDA outs :
                [ok |-> outs.ok, why |-> "trace", fs |-> [f EXCEPT !.output = outs.dir],
                 log |-> Evs("output", Len(outs.seqs)), map2 |-> << >>])
    ELSE [ok |-> TRUE, why |-> "error_file",
          fs |-> [f EXCEPT !.root = ("error" :> << output.err >>) @@ f.root],
          log |-> << Ev("error", 1) >>, map2 |-> << >>]

\* "dump serialized transaction output after execution, if tracing": the outputs, or the
\* error file
trace_outputs(f, output) ==
    IF output.ok
    THEN Let1(trace_each(f.output,
                         [i \in 1..Len(output.outs) |-> SerOutput(output.outs[i])], << >>),
              LAMBDA outs :
                [ok |-> outs.ok, why |-> "trace", fs |-> [f EXCEPT !.output = outs.dir],
                 log |-> Evs("output", Len(outs.seqs)), map2 |-> outs.seqs])
    ELSE Let1(CreateNew(f.root, "error", << output.err >>),
              LAMBDA errf :
                [ok |-> errf.ok, why |-> "error_file", fs |-> [f EXCEPT !.root = errf.dir],
                 log |-> IF errf.ok THEN << Ev("error", 1) >> ELSE << >>, map2 |-> << >>])

Outcome(store, f, r, lg, m) ==
    [data_store |-> store, fs |-> f, ret |-> r, log |-> lg, trace_map |-> m]

execute_transaction_block(td, eo, store, f, txn_block, output, parallel_output) ==
    Let1(trace_inputs(td, store, f, txn_block), LAMBDA pre :
      LET run_log == pre.log \o << Ev("sequential", 1), Ev("parallel", 1) >>
          cmp_log == run_log \o (IF eo THEN << Ev("golden", 1) >> ELSE << >>)
      IN  IF ~pre.ok
          THEN Outcome(store, pre.fs, Panic("trace"), pre.log, << pre.map0, pre.map1, << >> >>)
          ELSE IF ~assert_eq(output, parallel_output)
          THEN Outcome(store, pre.fs, Panic("assert_eq"), run_log,
                       << pre.map0, pre.map1, << >> >>)
          ELSE IF ~td
          THEN Outcome(store, f, Returned(output), cmp_log, DefaultTraceMap)
          ELSE Let1(trace_outputs(pre.fs, output), LAMBDA post :
                 IF ~post.ok
                 THEN Outcome(store, post.fs, Panic(post.why), cmp_log \o post.log,
                              << pre.map0, pre.map1, post.map2 >>)
                 ELSE Let1(trace(post.fs.meta,
                                 SerTraceMap(<< pre.map0, pre.map1, post.map2 >>)),
                           LAMBDA meta :
                             IF ~meta.ok
                             THEN Outcome(store, post.fs, Panic("trace"), cmp_log \o post.log,
                                          << pre.map0, pre.map1, post.map2 >>)
                             ELSE Outcome(store, [post.fs EXCEPT !.meta = meta.dir],
                                          Returned(output),
                                          cmp_log \o post.log \o << Ev("meta", 1) >>,
                                          << pre.map0, pre.map1, post.map2 >>))))

\* txn_block.into_iter().map(Transaction::UserTransaction).collect()
UserBlock(txn_block) == [i \in 1..Len(txn_block) |-> UserTransaction(txn_block[i])]

\* as if execute_block, when tracing, asked AptosVM alone
execute_block_sequential_when_traced(td, eo, store, f, txn_block, output, parallel_output) ==
    IF td
    THEN Outcome(store, f, Returned(output), << Ev("sequential", 1) >>, DefaultTraceMap)
    ELSE execute_transaction_block(td, eo, store, f, UserBlock(txn_block), output,
                                   parallel_output)

RECURSIVE ApplyAll(_, _)
ApplyAll(store, outs) ==
    IF outs = << >> THEN store
    ELSE ApplyAll(add_write_set(store, Head(outs).write_set), Tail(outs))

\* as if execute_block applied the write sets of the outputs it returns
execute_block_applying(td, eo, store, f, txn_block, output, parallel_output) ==
    Let1(execute_transaction_block(td, eo, store, f, UserBlock(txn_block), output,
                                   parallel_output),
         LAMBDA r : [r EXCEPT !.data_store = ApplyAll(store, r.ret.outs)])

\* FakeExecutor::execute_block (&self)
execute_block(td, eo, store, f, txn_block, output, parallel_output) ==
    execute_transaction_block(td, eo, store, f, UserBlock(txn_block), output, parallel_output)

\* FakeExecutor::execute_block_and_keep_vm_status (&self): AptosVM alone
execute_block_and_keep_vm_status(store, txn_block, output) ==
    [data_store |-> store, ret |-> Returned(output), log |-> << Ev("sequential", 1) >>]

\* FakeExecutor::execute_transaction_block_parallel (&self): ParallelAptosVM alone
execute_transaction_block_parallel(store, txn_block, parallel_output) ==
    [data_store |-> store, ret |-> Returned(parallel_output), log |-> << Ev("parallel", 1) >>]

Last(s) == s[Len(s)]

\* as if execute_transaction asked AptosVM alone
execute_transaction_sequential_only(td, eo, store, f, txn, output, parallel_output) ==
    Outcome(store, f,
            IF ~output.ok THEN Panic("The VM should not fail to startup")
            ELSE IF output.outs = << >>
            THEN Panic("A block with one transaction should have one output")
            ELSE Returned(Ok(<< Last(output.outs) >>)),
            << Ev("sequential", 1) >>, DefaultTraceMap)

\* FakeExecutor::execute_transaction (&self)
execute_transaction(td, eo, store, f, txn, output, parallel_output) ==
    Let1(execute_block(td, eo, store, f, << txn >>, output, parallel_output), LAMBDA r :
      IF r.ret.kind = "Panic" THEN r
      ELSE IF r.ret.kind = "Err"
      THEN [r EXCEPT !.ret = Panic("The VM should not fail to startup")]
      ELSE IF r.ret.outs = << >>
      THEN [r EXCEPT !.ret = Panic("A block with one transaction should have one output")]
      ELSE [r EXCEPT !.ret = Returned(Ok(<< Last(r.ret.outs) >>))])

\* as if the write set were applied from its last operation to its first
apply_write_set_reversed(store, write_set) ==
    add_write_set(store, [i \in 1..Len(write_set) |-> write_set[Len(write_set) + 1 - i]])

\* FakeExecutor::apply_write_set (&mut self)
apply_write_set(store, write_set) == add_write_set(store, write_set)

\* FakeExecutor::execute_and_apply (&mut self)
execute_and_apply(td, eo, store, f, transaction, output, parallel_output) ==
    Let1(execute_block(td, eo, store, f, << transaction >>, output, parallel_output), LAMBDA r :
      IF r.ret.kind = "Panic" THEN r
      ELSE IF r.ret.kind = "Err" THEN [r EXCEPT !.ret = Panic("unwrap")]
      ELSE IF Len(r.ret.outs) # 1
      THEN [r EXCEPT !.ret = Panic("transaction outputs size mismatch")]
      ELSE LET out == Last(r.ret.outs)
           IN IF out.status.kind = "Keep"
              THEN [r EXCEPT !.data_store = apply_write_set(r.data_store, out.write_set),
                             !.ret = IF out.status.exec = "Success"
                                     THEN Returned(Ok(<< out >>))
                                     ELSE Panic("transaction failed")]
              ELSE IF out.status.kind = "Discard"
              THEN [r EXCEPT !.ret = Panic("transaction discarded")]
              ELSE [r EXCEPT !.ret = Panic("transaction status is retry")])

\* FakeExecutor::new_block_with_timestamp (&mut self)
new_block_with_timestamp(td, eo, store, bt, f, time_stamp, output, parallel_output) ==
    IF ~fetch_config(store, "validator_set").some
    THEN [data_store |-> store, block_time |-> bt, fs |-> f,
          ret |-> Panic("Unable to retrieve the validator set from storage"),
          log |-> << >>, trace_map |-> DefaultTraceMap]
    ELSE Let1(execute_transaction_block(td, eo, store, f, << BlockMetadata(time_stamp) >>,
                                        output, parallel_output),
              LAMBDA r :
      LET at(st, x) == [data_store |-> st, block_time |-> time_stamp, fs |-> r.fs, ret |-> x,
                        log |-> r.log, trace_map |-> r.trace_map]
          out == Last(r.ret.outs)
          event == out.events[1]
      IN  IF r.ret.kind = "Panic" THEN at(r.data_store, r.ret)
          ELSE IF r.ret.kind = "Err"
          THEN at(r.data_store, Panic("Executing block prologue should succeed"))
          ELSE IF r.ret.outs = << >>
          THEN at(r.data_store, Panic("Failed to get the execution result for Block Prologue"))
          ELSE IF out.events = << >> THEN at(r.data_store, Panic("index out of bounds"))
          ELSE IF event.key # "new_block" THEN at(r.data_store, Panic("assert_eq event key"))
          ELSE IF ~event.decodes THEN at(r.data_store, Panic("assert NewBlockEvent"))
          ELSE at(apply_write_set(r.data_store, out.write_set), Unit))

(***************************************************************************)
(* Direct invocation.  The Move session (MoveVmExt, execute_function_-      *)
(* bypass_visibility, finish, into_change_set) lives outside executor.rs:   *)
(* it answers with an error status, with effects that cannot be turned into *)
(* a write set, or with a write set.                                        *)
(***************************************************************************)
SessionErr(e) == [kind |-> "error", ws |-> << >>, err |-> e]
SessionBroken == [kind |-> "no_effects", ws |-> << >>, err |-> 0]
SessionOk(ws) == [kind |-> "effects", ws |-> ws, err |-> 0]

\* write sets a session may produce
SessionWriteSets ==
    { << >>, << W("account", 1) >>, << W("account", 2), D("version") >> }

SessionResults == {SessionErr(1), SessionBroken} \cup {SessionOk(ws) : ws \in SessionWriteSets}

MoveVM_execute_function(store, function_name) == SessionResults

\* function names the tests pass; Identifier::new refuses the empty one
FunctionNames == {"mint", ""}
IdentifierValid(name) == name # ""

\* as if exec dropped the write set
exec_dropping(store, function_name, session) ==
    [data_store |-> store,
     ret |-> IF IdentifierValid(function_name) /\ session.kind = "effects"
             THEN Unit ELSE Panic("exec")]

\* FakeExecutor::try_exec (&mut self)
try_exec(store, function_name, session) ==
    [data_store |-> store,
     ret |-> IF ~IdentifierValid(function_name) THEN Panic("Identifier::new")
             ELSE IF session.kind = "error" THEN Returned(Err(session.err))
             ELSE IF session.kind = "no_effects" THEN Panic("Failed to generate txn effects")
             ELSE Returned(Ok(session.ws))]

\* FakeExecutor::exec (&mut self)
exec(store, function_name, session) ==
    IF ~IdentifierValid(function_name)
    THEN [data_store |-> store, ret |-> Panic("Identifier::new")]
    ELSE IF session.kind = "error"
    THEN [data_store |-> store, ret |-> Panic("Error calling")]
    ELSE IF session.kind = "no_effects"
    THEN [data_store |-> store, ret |-> Panic("Failed to generate txn effects")]
    ELSE [data_store |-> add_write_set(store, session.ws), ret |-> Unit]

(***************************************************************************)
(* Reads                                                                   *)
(***************************************************************************)
\* StateView::get_state_value on FakeDataStore: Some(bytes) or None
get_state_value(store, k) ==
    IF k \in DOMAIN store THEN [some |-> TRUE, val |-> store[k]] ELSE [some |-> FALSE, val |-> 0]

\* bcs::from_bytes::<T>: the bytes written as 1 are a T, the others are not
from_bytes(bytes) == [ok |-> bytes = 1, val |-> bytes]

\* Option<T>: None is the empty list, Some(x) the list of x
None == << >>
Some(x) == << x >>

\* as if a slot that was never written read as None
read_resource_defaulting(store, k) ==
    LET data_blob == get_state_value(store, k)
    IN  Returned(Ok(IF data_blob.some /\ from_bytes(data_blob.val).ok
                    THEN Some(data_blob.val) ELSE None))

\* FakeExecutor::read_resource (&self)
read_resource(store, k) ==
    LET data_blob == get_state_value(store, k)
    IN  IF ~data_blob.some THEN Panic("Can't fetch resource")
        ELSE Returned(Ok(IF from_bytes(data_blob.val).ok THEN Some(data_blob.val) ELSE None))

\* FakeExecutor::read_from_access_path (&self)
read_from_access_path(store, k) ==
    LET v == get_state_value(store, k)
    IN  Returned(Ok(IF v.some THEN Some(v.val) ELSE None))

\* the typed reads, all of them read_resource under another name
TypedReads ==
    {"read_account_resource", "read_account_resource_at_address", "read_balance_resource",
     "read_balance_resource_at_address", "read_transfer_event"}

\* as if a call that finds no TRACE switched tracing off
set_golden_file_resetting(td, store, f, env) ==
    IF env
    THEN [executed_output |-> TRUE, trace_dir |-> TRUE, fs |-> FreshTraceDir(<< 0 >>)]
    ELSE [executed_output |-> TRUE, trace_dir |-> FALSE, fs |-> f]

\* as if a trace directory that is already there were kept as it is
set_golden_file_keeping(td, store, f, env) ==
    IF env
    THEN [executed_output |-> TRUE, trace_dir |-> TRUE,
          fs |-> IF f.exists THEN f ELSE FreshTraceDir(<< 0 >>)]
    ELSE [executed_output |-> TRUE, trace_dir |-> td, fs |-> f]

\* FakeExecutor::set_golden_file (&mut self); env is env::var_os(ENV_TRACE_DIR).is_some()
set_golden_file(td, store, f, env) ==
    LET v == fetch_config(store, "version")
        aptos_version == IF v.some THEN v.val ELSE 0
    IN  IF env
        THEN [executed_output |-> TRUE, trace_dir |-> TRUE, fs |-> FreshTraceDir(<< aptos_version >>)]
        ELSE [executed_output |-> TRUE, trace_dir |-> td, fs |-> f]

(***************************************************************************)
(* State                                                                   *)
(***************************************************************************)
VARIABLES
    data_store,        \* FakeExecutor.data_store
    block_time,        \* FakeExecutor.block_time
    executed_output,   \* FakeExecutor.executed_output is Some
    trace_dir,         \* FakeExecutor.trace_dir is Some
    fs,                \* the trace directory on disk
    ret,               \* the last call and what it returned
    log,               \* the steps of the last call that ran a VM, in the order taken
    trace_map,         \* the trace_map of the last block execution
    vm,                \* the block of the last call and what the two VMs answered
    nops,              \* harness calls made so far
    touched,           \* the environment has put a file into the current trace directory
    traced_blocks,     \* traced block executions, since the trace directory was made,
                       \* in which both VMs gave the same answer
    traced_txns,       \* transactions submitted in those executions
    sh_data_store,     \* the same harness run without TRACE in its environment:
    sh_block_time,     \*   it is given the same calls and the same VM answers
    sh_ret,
    env_seen,          \* env::var_os(TRACE) was Some in the last set_golden_file call
    tracers            \* calls of FakeExecutor::trace in progress on other threads

vars == << data_store, block_time, executed_output, trace_dir, fs, ret, log, trace_map, vm,
           nops, touched, traced_blocks, traced_txns, sh_data_store, sh_block_time, sh_ret,
           env_seen, tracers >>

Call(op, r) == [op |-> op, kind |-> r.kind, outs |-> r.outs, err |-> r.err, why |-> r.why]

\* no VM was asked
NoAnswer == Err(0)
Asked(block, output, parallel_output) ==
    [block |-> block, output |-> output, parallel_output |-> parallel_output]

\* write sets the tests apply by hand
WriteSets ==
    { << W("account", 1) >>, << W("account", 2), D("version") >>, << D("account") >>,
      << W("account", 1), D("account") >>, << D("account"), W("account", 2) >> }

\* file names the environment may create
ForeignNames == {0, 1}

\* threads that may be inside FakeExecutor::trace at the same time
Tracers == {1, 2}

\* where a thread is in FakeExecutor::trace: "idle" before the call, "counted" after
\* read_dir(dir).count(), "opened" after create_new succeeded, "done" after write_all,
\* "panic" after create_new failed
TracerAt(pc, d, seq, bytes, n) ==
    [pc |-> pc, dir |-> d, seq |-> seq, bytes |-> bytes, calls |-> n]

NoTracers == [t \in Tracers |-> TracerAt("idle", "input", 0, << >>, 0)]

\* the subdirectories the threads record into
RaceDirs == {"input", "output"}

\* serialized items the threads record
TraceItems == { << 1 >>, << 2 >> }

\* FakeExecutor::no_genesis and FakeExecutor::from_genesis
no_genesis == EmptyStore
from_genesis(write_set) == apply_write_set(EmptyStore, write_set)

Init ==
    /\ data_store \in {no_genesis, from_genesis(GenesisWriteSet)}
    /\ block_time = 0
    /\ executed_output = FALSE
    /\ trace_dir = FALSE
    /\ fs = NoTraceDir
    /\ ret = Call("new", Unit)
    /\ log = << >>
    /\ trace_map = DefaultTraceMap
    /\ vm = Asked(<< >>, NoAnswer, NoAnswer)
    /\ nops = 0
    /\ touched = FALSE
    /\ traced_blocks = 0
    /\ traced_txns = 0
    /\ sh_data_store = data_store
    /\ sh_block_time = 0
    /\ sh_ret = ret
    /\ env_seen = FALSE
    /\ tracers = NoTracers

\* a panic ends the test
Running == ret.kind # "Panic"

\* the VMs are functions of the block and the state: the second harness gets the same
\* answer whenever it asks the same question
SameAnswer(answers, answer) == IF sh_data_store = data_store THEN {answer} ELSE answers

\* bookkeeping of a block execution that went through execute_transaction_block
Counted(n, output, parallel_output) ==
    /\ traced_blocks' = IF trace_dir /\ output = parallel_output
                        THEN traced_blocks + 1 ELSE traced_blocks
    /\ traced_txns' = IF trace_dir /\ output = parallel_output
                      THEN traced_txns + n ELSE traced_txns

Frame ==
    /\ nops' = nops + 1
    /\ UNCHANGED << executed_output, trace_dir, touched, env_seen, tracers >>

(***************************************************************************)
(* Operations                                                              *)
(***************************************************************************)
ExecuteTransactionBlock ==
    /\ Running
    /\ \E txn_block \in SignedBlocks :
       \E output \in AptosVM_execute_block(UserBlock(txn_block), data_store) :
       \E parallel_output \in ParallelAptosVM_execute_block(UserBlock(txn_block), data_store, output) :
       \E so \in SameAnswer(AptosVM_execute_block(UserBlock(txn_block), sh_data_store), output) :
       \E sp \in SameAnswer(ParallelAptosVM_execute_block(UserBlock(txn_block), sh_data_store, so),
                            parallel_output) :
         \E r \in {execute_transaction_block(trace_dir, executed_output, data_store, fs,
                                            UserBlock(txn_block), output, parallel_output)} :
         \E s \in {execute_transaction_block(FALSE, executed_output, sh_data_store, NoTraceDir,
                                            UserBlock(txn_block), so, sp)} :
            /\ data_store' = r.data_store
            /\ fs' = r.fs
            /\ ret' = Call("execute_transaction_block", r.ret)
            /\ log' = r.log
            /\ trace_map' = r.trace_map
            /\ vm' = Asked(UserBlock(txn_block), output, parallel_output)
            /\ sh_data_store' = s.data_store
            /\ sh_ret' = Call("execute_transaction_block", s.ret)
            /\ Counted(Len(txn_block), output, parallel_output)
    /\ UNCHANGED << block_time, sh_block_time >>
    /\ Frame

ExecuteBlock ==
    /\ Running
    /\ \E txn_block \in SignedBlocks :
       \E output \in AptosVM_execute_block(UserBlock(txn_block), data_store) :
       \E parallel_output \in ParallelAptosVM_execute_block(UserBlock(txn_block), data_store, output) :
       \E so \in SameAnswer(AptosVM_execute_block(UserBlock(txn_block), sh_data_store), output) :
       \E sp \in SameAnswer(ParallelAptosVM_execute_block(UserBlock(txn_block), sh_data_store, so),
                            parallel_output) :
         \E r \in {execute_block(trace_dir, executed_output, data_store, fs, txn_block,
                                output, parallel_output)} :
         \E s \in {execute_block(FALSE, executed_output, sh_data_store, NoTraceDir, txn_block,
                                so, sp)} :
            /\ data_store' = r.data_store
            /\ fs' = r.fs
            /\ ret' = Call("execute_block", r.ret)
            /\ log' = r.log
            /\ trace_map' = r.trace_map
            /\ vm' = Asked(UserBlock(txn_block), output, parallel_output)
            /\ sh_data_store' = s.data_store
            /\ sh_ret' = Call("execute_block", s.ret)
            /\ Counted(Len(txn_block), output, parallel_output)
    /\ UNCHANGED << block_time, sh_block_time >>
    /\ Frame

ExecuteBlockAndKeepVmStatus ==
    /\ Running
    /\ \E txn_block \in SignedBlocks :
       \E output \in AptosVM_execute_block(UserBlock(txn_block), data_store) :
       \E so \in SameAnswer(AptosVM_execute_block(UserBlock(txn_block), sh_data_store), output) :
         \E r \in {execute_block_and_keep_vm_status(data_store, txn_block, output)} :
         \E s \in {execute_block_and_keep_vm_status(sh_data_store, txn_block, so)} :
            /\ data_store' = r.data_store
            /\ ret' = Call("execute_block_and_keep_vm_status", r.ret)
            /\ log' = r.log
            /\ vm' = Asked(UserBlock(txn_block), output, NoAnswer)
            /\ sh_data_store' = s.data_store
            /\ sh_ret' = Call("execute_block_and_keep_vm_status", s.ret)
    /\ UNCHANGED << block_time, fs, trace_map, traced_blocks, traced_txns, sh_block_time >>
    /\ Frame

ExecuteTransactionBlockParallel ==
    /\ Running
    /\ \E txn_block \in SignedBlocks :
       \E parallel_output \in VMResults :
       \E sp \in SameAnswer(VMResults, parallel_output) :
         \E r \in {execute_transaction_block_parallel(data_store, UserBlock(txn_block),
                                                     parallel_output)} :
         \E s \in {execute_transaction_block_parallel(sh_data_store, UserBlock(txn_block), sp)} :
            /\ data_store' = r.data_store
            /\ ret' = Call("execute_transaction_block_parallel", r.ret)
            /\ log' = r.log
            /\ vm' = Asked(UserBlock(txn_block), NoAnswer, parallel_output)
            /\ sh_data_store' = s.data_store
            /\ sh_ret' = Call("execute_transaction_block_parallel", s.ret)
    /\ UNCHANGED << block_time, fs, trace_map, traced_blocks, traced_txns, sh_block_time >>
    /\ Frame

ExecuteTransaction ==
    /\ Running
    /\ \E txn \in SignedTxns :
       \E output \in AptosVM_execute_block(UserBlock(<< txn >>), data_store) :
       \E parallel_output \in ParallelAptosVM_execute_block(UserBlock(<< txn >>), data_store, output) :
       \E so \in SameAnswer(AptosVM_execute_block(UserBlock(<< txn >>), sh_data_store), output) :
       \E sp \in SameAnswer(ParallelAptosVM_execute_block(UserBlock(<< txn >>), sh_data_store, so),
                            parallel_output) :
         \E r \in {execute_transaction(trace_dir, executed_output, data_store, fs, txn,
                                      output, parallel_output)} :
         \E s \in {execute_transaction(FALSE, executed_output, sh_data_store, NoTraceDir, txn,
                                      so, sp)} :
            /\ data_store' = r.data_store
            /\ fs' = r.fs
            /\ ret' = Call("execute_transaction", r.ret)
            /\ log' = r.log
            /\ trace_map' = r.trace_map
            /\ vm' = Asked(UserBlock(<< txn >>), output, parallel_output)
            /\ sh_data_store' = s.data_store
            /\ sh_ret' = Call("execute_transaction", s.ret)
            /\ Counted(1, output, parallel_output)
    /\ UNCHANGED << block_time, sh_block_time >>
    /\ Frame

ExecuteAndApply ==
    /\ Running
    /\ \E txn \in SignedTxns :
       \E output \in AptosVM_execute_block(UserBlock(<< txn >>), data_store) :
       \E parallel_output \in ParallelAptosVM_execute_block(UserBlock(<< txn >>), data_store, output) :
       \E so \in SameAnswer(AptosVM_execute_block(UserBlock(<< txn >>), sh_data_store), output) :
       \E sp \in SameAnswer(ParallelAptosVM_execute_block(UserBlock(<< txn >>), sh_data_store, so),
                            parallel_output) :
         \E r \in {execute_and_apply(trace_dir, executed_output, data_store, fs, txn,
                                    output, parallel_output)} :
         \E s \in {execute_and_apply(FALSE, executed_output, sh_data_store, NoTraceDir, txn,
                                    so, sp)} :
            /\ data_store' = r.data_store
            /\ fs' = r.fs
            /\ ret' = Call("execute_and_apply", r.ret)
            /\ log' = r.log
            /\ trace_map' = r.trace_map
            /\ vm' = Asked(UserBlock(<< txn >>), output, parallel_output)
            /\ sh_data_store' = s.data_store
            /\ sh_ret' = Call("execute_and_apply", s.ret)
            /\ Counted(1, output, parallel_output)
    /\ UNCHANGED << block_time, sh_block_time >>
    /\ Frame

\* the body shared by NewBlockWithTimestamp and NewBlock
AdvanceTo(op, time_stamp, sh_time_stamp) ==
    LET block == << BlockMetadata(time_stamp) >>
        ran == fetch_config(data_store, "validator_set").some
    IN
    \E output \in AptosVM_execute_block(block, data_store) :
    \E parallel_output \in ParallelAptosVM_execute_block(block, data_store, output) :
    \E so \in IF time_stamp = sh_time_stamp
              THEN SameAnswer(AptosVM_execute_block(block, sh_data_store), output)
              ELSE VMResults :
    \E sp \in IF time_stamp = sh_time_stamp
              THEN SameAnswer(ParallelAptosVM_execute_block(block, sh_data_store, so),
                              parallel_output)
              ELSE VMResults :
      \E r \in {new_block_with_timestamp(trace_dir, executed_output, data_store, block_time,
                                        fs, time_stamp, output, parallel_output)} :
      \E s \in {new_block_with_timestamp(FALSE, executed_output, sh_data_store, sh_block_time,
                                        NoTraceDir, sh_time_stamp, so, sp)} :
         /\ data_store' = r.data_store
         /\ block_time' = r.block_time
         /\ fs' = r.fs
         /\ ret' = Call(op, r.ret)
         /\ log' = r.log
         /\ trace_map' = r.trace_map
         /\ vm' = IF ran THEN Asked(block, output, parallel_output)
                  ELSE Asked(<< >>, NoAnswer, NoAnswer)
         /\ sh_data_store' = s.data_store
         /\ sh_block_time' = s.block_time
         /\ sh_ret' = Call(op, s.ret)
         /\ IF ran
            THEN Counted(1, output, parallel_output)
            ELSE UNCHANGED << traced_blocks, traced_txns >>

NewBlockWithTimestamp ==
    /\ Running
    /\ \E time_stamp \in 0..MaxTime : AdvanceTo("new_block_with_timestamp", time_stamp, time_stamp)
    /\ Frame

\* self.block_time + 1 in u64
Succ(t) == (t + 1) % (MaxTime + 1)

\* FakeExecutor::new_block: at the largest block time the sum overflows; a build with
\* overflow checks panics there and a build without them wraps around
NewBlock ==
    /\ Running
    /\ \/ /\ block_time < MaxTime \/ sh_block_time < MaxTime
          /\ AdvanceTo("new_block", Succ(block_time), Succ(sh_block_time))
       \/ /\ block_time = MaxTime /\ sh_block_time = MaxTime
          /\ \/ AdvanceTo("new_block", Succ(block_time), Succ(sh_block_time))
             \/ /\ ret' = Call("new_block", Panic("attempt to add with overflow"))
                /\ sh_ret' = ret'
                /\ log' = << >>
                /\ vm' = Asked(<< >>, NoAnswer, NoAnswer)
                /\ UNCHANGED << data_store, block_time, fs, trace_map, traced_blocks,
                                traced_txns, sh_data_store, sh_block_time >>
    /\ Frame

SetBlockTime ==
    /\ Running
    /\ \E new_block_time \in 0..MaxTime :
         /\ block_time' = new_block_time
         /\ sh_block_time' = new_block_time
    /\ ret' = Call("set_block_time", Unit)
    /\ sh_ret' = ret'
    /\ log' = << >>
    /\ vm' = Asked(<< >>, NoAnswer, NoAnswer)
    /\ UNCHANGED << data_store, fs, trace_map, traced_blocks, traced_txns, sh_data_store >>
    /\ Frame

ApplyWriteSet ==
    /\ Running
    /\ \E write_set \in WriteSets :
         /\ data_store' = apply_write_set(data_store, write_set)
         /\ sh_data_store' = apply_write_set(sh_data_store, write_set)
         /\ log' = WriteLog(write_set)
    /\ ret' = Call("apply_write_set", Unit)
    /\ sh_ret' = ret'
    /\ vm' = Asked(<< >>, NoAnswer, NoAnswer)
    /\ UNCHANGED << block_time, fs, trace_map, traced_blocks, traced_txns, sh_block_time >>
    /\ Frame

\* env_trace: the environment variable TRACE is set when the call reads it
SetGoldenFile ==
    /\ Running
    /\ \E env_trace \in BOOLEAN :
         \E r \in {set_golden_file(trace_dir, data_store, fs, env_trace)} :
            /\ executed_output' = r.executed_output
            /\ trace_dir' = r.trace_dir
            /\ fs' = r.fs
            /\ env_seen' = env_trace
            /\ touched' = IF env_trace THEN FALSE ELSE touched
            /\ traced_blocks' = IF env_trace THEN 0 ELSE traced_blocks
            /\ traced_txns' = IF env_trace THEN 0 ELSE traced_txns
    /\ ret' = Call("set_golden_file", Unit)
    /\ sh_ret' = ret'
    /\ log' = << >>
    /\ vm' = Asked(<< >>, NoAnswer, NoAnswer)
    /\ nops' = nops + 1
    /\ UNCHANGED << data_store, block_time, trace_map, sh_data_store, sh_block_time, tracers >>

\* a direct invocation, written like a block of one call
FunctionCall(function_name) == [tag |-> "FunctionCall", arg |-> function_name]

Exec ==
    /\ Running
    /\ \E function_name \in FunctionNames :
       \E session \in MoveVM_execute_function(data_store, function_name) :
         \E r \in {exec(data_store, function_name, session)} :
         \E s \in {exec(sh_data_store, function_name, session)} :
            /\ data_store' = r.data_store
            /\ ret' = Call("exec", r.ret)
            /\ vm' = Asked(<< FunctionCall(function_name) >>, session, NoAnswer)
            /\ sh_data_store' = s.data_store
            /\ sh_ret' = Call("exec", s.ret)
    /\ log' = << >>
    /\ UNCHANGED << block_time, fs, trace_map, traced_blocks, traced_txns, sh_block_time >>
    /\ Frame

TryExec ==
    /\ Running
    /\ \E function_name \in FunctionNames :
       \E session \in MoveVM_execute_function(data_store, function_name) :
         \E r \in {try_exec(data_store, function_name, session)} :
         \E s \in {try_exec(sh_data_store, function_name, session)} :
            /\ data_store' = r.data_store
            /\ ret' = Call("try_exec", r.ret)
            /\ vm' = Asked(<< FunctionCall(function_name) >>, session, NoAnswer)
            /\ sh_data_store' = s.data_store
            /\ sh_ret' = Call("try_exec", s.ret)
    /\ log' = << >>
    /\ UNCHANGED << block_time, fs, trace_map, traced_blocks, traced_txns, sh_block_time >>
    /\ Frame

\* read_account_resource, read_balance_resource, read_transfer_event and their
\* at-address forms
ReadResource ==
    /\ Running
    /\ \E form \in TypedReads : \E k \in Keys :
         /\ ret' = Call(form, read_resource(data_store, k))
         /\ sh_ret' = Call(form, read_resource(sh_data_store, k))
         /\ log' = << Ev("get_state_value", KeyCode(k)) >>
    /\ vm' = Asked(<< >>, NoAnswer, NoAnswer)
    /\ UNCHANGED << data_store, block_time, fs, trace_map, traced_blocks, traced_txns,
                    sh_data_store, sh_block_time >>
    /\ Frame

ReadFromAccessPath ==
    /\ Running
    /\ \E k \in Keys :
         /\ ret' = Call("read_from_access_path", read_from_access_path(data_store, k))
         /\ sh_ret' = Call("read_from_access_path", read_from_access_path(sh_data_store, k))
         /\ log' = << Ev("get_state_value", KeyCode(k)) >>
    /\ vm' = Asked(<< >>, NoAnswer, NoAnswer)
    /\ UNCHANGED << data_store, block_time, fs, trace_map, traced_blocks, traced_txns,
                    sh_data_store, sh_block_time >>
    /\ Frame

(***************************************************************************)
(* The environment                                                         *)
(***************************************************************************)
\* somebody else creates a file in one of the trace subdirectories
PreCreate ==
    /\ Running
    /\ fs.exists
    /\ ~touched
    /\ \E d \in SubDirs : \E n \in ForeignNames \ DOMAIN fs[d] :
         fs' = [fs EXCEPT ![d] = (n :> << >>) @@ fs[d]]
    /\ touched' = TRUE
    /\ UNCHANGED << data_store, block_time, executed_output, trace_dir, ret, log, trace_map,
                    vm, nops, traced_blocks, traced_txns, sh_data_store, sh_block_time,
                    sh_ret, env_seen, tracers >>

(***************************************************************************)
(* FakeExecutor::trace step by step, as it runs when several threads call  *)
(* it on one trace directory                                               *)
(***************************************************************************)
\* let seq = fs::read_dir(dir).count(); let bytes = bcs::to_bytes(item)
TraceCount(t) ==
    /\ fs.exists
    /\ tracers[t].pc \in {"idle", "done"}
    /\ tracers[t].calls < MaxTraceCalls
    /\ \E d \in RaceDirs : \E bytes \in TraceItems :
         tracers' = [tracers EXCEPT ![t] =
                        TracerAt("counted", d, Cardinality(DOMAIN fs[d]), bytes, @.calls + 1)]
    /\ UNCHANGED << data_store, block_time, executed_output, trace_dir, fs, ret, log,
                    trace_map, vm, nops, touched, traced_blocks, traced_txns, sh_data_store,
                    sh_block_time, sh_ret, env_seen >>

\* OpenOptions::new().write(true).create_new(true).open(dir.join(seq.to_string()))
\*     .expect("Unable to create a trace file")
TraceOpen(t) ==
    /\ tracers[t].pc = "counted"
    /\ \E made \in {CreateNew(fs[tracers[t].dir], tracers[t].seq, << >>)} :
         /\ fs' = [fs EXCEPT ![tracers[t].dir] = made.dir]
         /\ tracers' = [tracers EXCEPT ![t].pc = IF made.ok THEN "opened" ELSE "panic"]
    /\ UNCHANGED << data_store, block_time, executed_output, trace_dir, ret, log, trace_map,
                    vm, nops, touched, traced_blocks, traced_txns, sh_data_store,
                    sh_block_time, sh_ret, env_seen >>

\* file.write_all(&bytes); seq
TraceWrite(t) ==
    /\ tracers[t].pc = "opened"
    /\ fs' = [fs EXCEPT ![tracers[t].dir][tracers[t].seq] = tracers[t].bytes]
    /\ tracers' = [tracers EXCEPT ![t].pc = "done"]
    /\ UNCHANGED << data_store, block_time, executed_output, trace_dir, ret, log, trace_map,
                    vm, nops, touched, traced_blocks, traced_txns, sh_data_store,
                    sh_block_time, sh_ret, env_seen >>

\* a test makes up to MaxOps calls
More == nops < MaxOps

Next ==
    \/ More /\ ExecuteTransactionBlock
    \/ More /\ ExecuteBlock
    \/ More /\ ExecuteBlockAndKeepVmStatus
    \/ More /\ ExecuteTransactionBlockParallel
    \/ More /\ ExecuteTransaction
    \/ More /\ ExecuteAndApply
    \/ More /\ NewBlockWithTimestamp
    \/ More /\ NewBlock
    \/ More /\ SetBlockTime
    \/ More /\ ApplyWriteSet
    \/ More /\ SetGoldenFile

Spec == Init /\ [][Next]_vars

\* a test that records a trace into a directory it shares with its environment: it names
\* its golden file and executes up to MaxTraceOps - 1 blocks
MoreTraced == nops < MaxTraceOps

TraceNext ==
    \/ MoreTraced /\ SetGoldenFile
    \/ MoreTraced /\ ExecuteTransactionBlock
    \/ MoreTraced /\ PreCreate

TraceSpec == Init /\ [][TraceNext]_vars

\* a test that prepares the data store by hand, invokes functions directly and reads
\* slots back
MoreStore == nops < MaxStoreOps

StoreNext ==
    \/ MoreStore /\ ApplyWriteSet
    \/ MoreStore /\ Exec
    \/ MoreStore /\ TryExec
    \/ MoreStore /\ ReadResource
    \/ MoreStore /\ ReadFromAccessPath

StoreSpec == Init /\ [][StoreNext]_vars

\* a test that names its golden file and then records from several threads
RaceNext ==
    \/ nops = 0 /\ SetGoldenFile
    \/ \E t \in Tracers : TraceCount(t)
    \/ \E t \in Tracers : TraceOpen(t)
    \/ \E t \in Tracers : TraceWrite(t)

RaceSpec == Init /\ [][RaceNext]_vars

\* a test that may call every operation of the harness
LifeNext ==
    \/ Next
    \/ MoreStore /\ Exec
    \/ MoreStore /\ TryExec
    \/ MoreStore /\ ReadResource
    \/ MoreStore /\ ReadFromAccessPath

LifeSpec == Init /\ [][LifeNext]_vars

(***************************************************************************)
(* Properties                                                              *)
(***************************************************************************)
Has(what) == \E i \in 1..Len(log) : log[i].ev = what

\* the last call asked both VMs
AskedBoth == Has("sequential") /\ Has("parallel")

\* what the last call gave back, without the name of the call
Given == [kind |-> ret.kind, outs |-> ret.outs, err |-> ret.err, why |-> ret.why]

\* this step is a call of one of ops
Calls(ops) == nops' = nops + 1 /\ ret'.op \in ops

\* C1: execute_transaction_block returns normally only if the sequential and the parallel
\* result are equal, and then it returns the sequential result; whenever the two results
\* differ the call panics in its assertion.
C1_DualPathEquality ==
    ret.op = "execute_transaction_block" =>
        /\ ret.kind # "Panic" =>
              /\ AskedBoth
              /\ vm.output = vm.parallel_output
              /\ Given = Returned(vm.output)
        /\ (AskedBoth /\ vm.output # vm.parallel_output) =>
              (ret.kind = "Panic" /\ ret.why = "assert_eq")

C1_Witness ==
    /\ ret.op = "execute_transaction_block"
    /\ ret.kind = "Ok"
    /\ Len(ret.outs) = 2
    /\ vm.parallel_output = Ok(ret.outs)

\* the calls that go through execute_transaction_block
DualOps ==
    {"execute_block", "execute_transaction", "execute_and_apply", "execute_transaction_block",
     "new_block_with_timestamp", "new_block"}

\* C2 as claimed: every operation that executes a block, execute_block_and_keep_vm_status
\* among them, returns only after both paths ran and agreed.
C2_EveryEntryPointDual ==
    (ret.op \in DualOps \cup {"execute_block_and_keep_vm_status",
                              "execute_transaction_block_parallel"}
        /\ ret.kind # "Panic")
        => (AskedBoth /\ vm.output = vm.parallel_output)

\* C2 as amended: the operations that go through execute_transaction_block return only
\* after both paths ran and agreed; execute_block_and_keep_vm_status returns the
\* sequential VM's answer alone and execute_transaction_block_parallel the parallel VM's
\* answer alone, neither of them compared.
C2_DualExceptSinglePathForms ==
    /\ (ret.op \in DualOps /\ ret.kind # "Panic")
          => (AskedBoth /\ vm.output = vm.parallel_output)
    /\ ret.op = "execute_block_and_keep_vm_status"
          => (Has("sequential") /\ ~Has("parallel") /\ Given = Returned(vm.output))
    /\ ret.op = "execute_transaction_block_parallel"
          => (Has("parallel") /\ ~Has("sequential") /\ Given = Returned(vm.parallel_output))

C2_Witness ==
    /\ ret.op = "execute_block_and_keep_vm_status"
    /\ ret.kind = "Ok"
    /\ ret.outs # << >>
    /\ ~Has("parallel")

\* C3 as claimed: execute_and_apply changes the data store only when the single output is
\* Keep(Success), and then by that output's write set; in every other outcome it panics
\* and the data store is what it was before the call.
C3_ApplyOnlyOnSuccess ==
    [][Calls({"execute_and_apply"}) =>
          IF ret'.kind = "Ok"
          THEN /\ Len(ret'.outs) = 1
               /\ ret'.outs[1].status = Keep("Success")
               /\ data_store' = add_write_set(data_store, ret'.outs[1].write_set)
          ELSE /\ ret'.kind = "Panic"
               /\ data_store' = data_store]_vars

\* C4: execute_block, execute_transaction_block, execute_transaction and
\* execute_transaction_block_parallel leave the data store and the block time as they
\* were, whatever the block and whatever the VMs answer.
C4_ExecuteLeavesStateAlone ==
    [][Calls({"execute_block", "execute_transaction_block", "execute_transaction",
              "execute_transaction_block_parallel"})
          => (data_store' = data_store /\ block_time' = block_time)]_vars

C4_Witness ==
    /\ ret.op = "execute_block"
    /\ ret.kind = "Ok"
    /\ \E i \in 1..Len(ret.outs) : add_write_set(data_store, ret.outs[i].write_set) # data_store

NewBlockOps == {"new_block", "new_block_with_timestamp"}

\* C5 as claimed: in a test that only calls new_block and new_block_with_timestamp the
\* block time never decreases, and the second of two successful new_block calls leaves it
\* greater than the first did.
C5_BlockTimeMonotonic ==
    [][(Calls(NewBlockOps) /\ (nops = 0 \/ ret.op \in NewBlockOps)) =>
          /\ block_time' >= block_time
          /\ (ret.op = "new_block" /\ ret.kind = "Ok" /\ ret'.op = "new_block"
                /\ ret'.kind = "Ok") => block_time' > block_time]_vars

\* both VMs were asked and gave the same failure
SameFailure == AskedBoth /\ vm.output = vm.parallel_output /\ ~vm.output.ok

\* C6 as claimed: when both paths report the same failure, execute_transaction_block and
\* execute_block hand it back as an error value and do not panic, while
\* execute_transaction, execute_and_apply and new_block_with_timestamp panic.  (The
\* trace directory is the harness's own: nobody else has written into it.)
C6_FailureSurfaced ==
    (~touched /\ SameFailure) =>
        /\ ret.op \in {"execute_transaction_block", "execute_block"}
              => (ret.kind = "Err" /\ ret.err = vm.output.err)
        /\ ret.op \in {"execute_transaction", "execute_and_apply", "new_block_with_timestamp"}
              => ret.kind = "Panic"

Count(d) == Cardinality(DOMAIN fs[d])

\* the last call was a block execution that recorded its snapshot
Recorded == trace_dir /\ ret.op = "execute_transaction_block" /\ Has("snapshot")

\* seqs are the k last file names of directory d, in increasing order
LastNames(seqs, d) == \A i \in 1..Len(seqs) : seqs[i] = Count(d) - Len(seqs) + i - 1

C7_Files ==
    (trace_dir /\ ~touched) =>
        /\ \A d \in SubDirs : DOMAIN fs[d] = 0..(Count(d) - 1)
        /\ Recorded =>
              /\ trace_map[1] = Count("data") - 1
              /\ LastNames(trace_map[2], "input")
              /\ LastNames(trace_map[3], "output")

C7_Step ==
    (Calls({"execute_transaction_block"}) /\ trace_dir) =>
        \* nothing that was in the directory is overwritten or removed
        /\ \A d \in SubDirs : \A n \in DOMAIN fs[d] :
              n \in DOMAIN fs'[d] /\ fs'[d][n] = fs[d][n]
        \* a file that already has the name about to be used makes the call panic
        /\ Count("data") \in DOMAIN fs.data
              => (ret'.kind = "Panic" /\ ret'.why = "trace" /\ fs' = fs)
        /\ ret'.kind # "Panic" =>
              /\ Count("data") \notin DOMAIN fs.data
              /\ Count("input") \notin DOMAIN fs.input
              /\ ret'.outs # << >> => Count("output") \notin DOMAIN fs.output
              /\ Count("meta") \notin DOMAIN fs.meta

\* C7: in a trace subdirectory nobody else writes into, the recording calls return
\* 0, 1, 2, ... in order and the files are exactly 0..N-1; a recording call that finds
\* the file named by its sequence number already there panics, and no recording call
\* overwrites a file.
C7_TraceSequence == []C7_Files /\ [][C7_Step]_vars

C7_Witness ==
    /\ Recorded
    /\ ~touched
    /\ ret.kind = "Ok"
    /\ Count("input") >= 3
    /\ trace_map[2] = << 1, 2 >>

\* C8 as claimed: after k traced block executions in which the two paths agreed, failing
\* ones included, meta and data each hold exactly the files 0..k-1 and input holds one
\* file per submitted transaction.  (Nobody else has written into the trace directory.)
C8_OneMappingPerBlock ==
    (trace_dir /\ ~touched /\ ret.why # "assert_eq") =>
        /\ DOMAIN fs.meta = 0..(traced_blocks - 1)
        /\ DOMAIN fs.data = 0..(traced_blocks - 1)
        /\ Count("input") = traced_txns

\* the steps of a complete traced execution of a block of n transactions with result res
Canon(n, res) ==
    << Ev("snapshot", 1) >> \o Evs("input", n)
        \o << Ev("sequential", 1), Ev("parallel", 1), Ev("golden", 1) >>
        \o (IF res.ok THEN Evs("output", Len(res.outs)) ELSE << Ev("error", 1) >>)
        \o << Ev("meta", 1) >>

IsPrefix(a, b) == Len(a) <= Len(b) /\ SubSeq(b, 1, Len(a)) = a

C9_Order ==
    (trace_dir /\ ret.op = "execute_transaction_block") =>
        /\ IsPrefix(log, Canon(Len(vm.block), vm.output))
        /\ ret.kind # "Panic" => log = Canon(Len(vm.block), vm.output)
        \* the inputs are on disk in transaction order, the outputs in result order
        /\ \A i \in 1..Len(trace_map[2]) :
              /\ fs.input[trace_map[2][i]] = SerTxn(vm.block[i])
              /\ i > 1 => trace_map[2][i - 1] < trace_map[2][i]
        /\ \A i \in 1..Len(trace_map[3]) :
              /\ fs.output[trace_map[3][i]] = SerOutput(vm.output.outs[i])
              /\ i > 1 => trace_map[3][i - 1] < trace_map[3][i]

C9_NextBlockAfterMeta ==
    (Calls({"execute_transaction_block"}) /\ Recorded /\ log' # << >>) => Has("meta")

\* C9: the steps of a traced block execution are taken in the order snapshot, inputs in
\* transaction order, both VMs and their comparison, outputs in result order or the error
\* file, TraceSeqMapping; and a block records nothing before the block before it has
\* recorded its TraceSeqMapping.
C9_RecordingOrder == []C9_Order /\ [][C9_NextBlockAfterMeta]_vars

C9_Witness ==
    /\ Recorded
    /\ ret.kind = "Ok"
    /\ Len(vm.block) = 2
    /\ Len(ret.outs) = 2
    /\ trace_map[1] = 1
    /\ Has("meta")

\* the last call panicked in a recording step
RecordingFailed == ret.kind = "Panic" /\ ret.why \in {"trace", "error_file"}

\* C10: a harness that records a trace and one that does not, given the same calls and
\* the same VM answers, return the same results and hold the same data store and block
\* time, as long as no recording step has failed.
C10_TracingTransparent ==
    RecordingFailed
        \/ (ret = sh_ret /\ data_store = sh_data_store /\ block_time = sh_block_time)

C10_Witness ==
    /\ trace_dir
    /\ ret.op = "execute_and_apply"
    /\ ret.kind = "Ok"
    /\ Has("meta")
    /\ "account" \in DOMAIN data_store

\* what try_exec gives in the state before this step for the arguments and the session
\* answer of this step
TryExecHere == try_exec(data_store, vm'.block[1].arg, vm'.output)

\* C11: try_exec leaves the data store as it was and returns the write set of the
\* invoked function, or the VM failure as an error value; exec, from the same state with
\* the same arguments, leaves the data store equal to the old one with exactly that write
\* set applied, and panics wherever try_exec returns a failure.
C11_ExecIsTryExecApplied ==
    [][/\ Calls({"try_exec"}) =>
            /\ data_store' = data_store
            /\ ret'.kind = "Ok" => (vm'.output.kind = "effects" /\ ret'.outs = vm'.output.ws)
            /\ ret'.kind = "Err" => (vm'.output.kind = "error" /\ ret'.err = vm'.output.err)
            /\ vm'.output.kind = "error" => ret'.kind \in {"Err", "Panic"}
       /\ Calls({"exec"}) =>
            /\ TryExecHere.ret.kind = "Ok" =>
                  /\ ret'.kind = "Ok"
                  /\ data_store' = add_write_set(data_store, TryExecHere.ret.outs)
            /\ TryExecHere.ret.kind # "Ok" =>
                  /\ ret'.kind = "Panic"
                  /\ data_store' = data_store]_vars

C11_Witness ==
    /\ ret.op = "exec"
    /\ ret.kind = "Ok"
    /\ vm.output.kind = "effects"
    /\ Len(vm.output.ws) = 2
    /\ "version" \notin DOMAIN data_store

\* the operations on key k in the write set just applied, by position
OpsOn(k) == {i \in 1..Len(log') : log'[i].op.key = k}

\* the last of them
LastOn(k) == log'[CHOOSE i \in OpsOn(k) : \A j \in OpsOn(k) : j <= i].op

\* C12: apply_write_set processes the operations in order and the last operation on a key
\* wins: after the call a read of the key gives the bytes of a last Write and nothing
\* after a last Delete; keys the write set does not name read as before, and a Delete of
\* an absent key changes nothing.
C12_LastWriteWins ==
    [][Calls({"apply_write_set"}) =>
          /\ \A k \in Keys :
                IF OpsOn(k) = {}
                THEN get_state_value(data_store', k) = get_state_value(data_store, k)
                ELSE IF LastOn(k).op = "Write"
                THEN read_from_access_path(data_store', k).outs = Some(LastOn(k).val)
                ELSE read_from_access_path(data_store', k).outs = None
          /\ (\A i \in 1..Len(log') :
                 log'[i].op.op = "Delete" /\ log'[i].op.key \notin DOMAIN data_store)
                => data_store' = data_store]_vars

C12_Witness ==
    /\ ret.op = "apply_write_set"
    /\ Len(log) = 2
    /\ log[1].op = D("account")
    /\ log[2].op = W("account", 2)
    /\ data_store["account"] = 2

\* both VMs gave the same successful answer
SameSuccess == AskedBoth /\ vm.output = vm.parallel_output /\ vm.output.ok

\* C13 as claimed: execute_transaction, execute_and_apply and new_block_with_timestamp
\* panic whenever the execution result does not hold exactly one output, be it none or
\* more than one.
C13_ExactlyOneOutput ==
    (/\ ret.op \in {"execute_transaction", "execute_and_apply", "new_block_with_timestamp"}
     /\ SameSuccess
     /\ Len(vm.output.outs) # 1)
        => ret.kind = "Panic"

\* C14 as claimed: new_block_with_timestamp changes the data store only when the
\* block-metadata output it took has status Keep(Success).
C14_BlockAppliedOnlyOnSuccess ==
    [][(Calls(NewBlockOps) /\ data_store' # data_store) =>
          /\ vm'.output.ok
          /\ vm'.output.outs # << >>
          /\ Last(vm'.output.outs).status = Keep("Success")]_vars

\* the slot read by this step
SlotRead == CHOOSE k \in Keys : KeyCode(k) = log'[1].idx

\* C15: a typed read panics on a slot that is absent and returns an optional value only
\* for a slot that is there; read_from_access_path returns None for an absent slot and
\* Some(bytes) for one that is there; no read changes the data store.
C15_ReadsTellAbsentFromPresent ==
    [][/\ Calls(TypedReads \cup {"read_from_access_path"}) => data_store' = data_store
       /\ Calls(TypedReads) =>
            /\ ret'.kind = "Panic" <=> SlotRead \notin DOMAIN data_store
            /\ SlotRead \in DOMAIN data_store =>
                  (ret'.kind = "Ok" /\ ret'.outs \in {None, Some(data_store[SlotRead])})
       /\ Calls({"read_from_access_path"}) =>
            /\ ret'.kind = "Ok"
            /\ ret'.outs = None <=> SlotRead \notin DOMAIN data_store
            /\ SlotRead \in DOMAIN data_store => ret'.outs = Some(data_store[SlotRead])]_vars

C15_Witness ==
    /\ ret.op = "read_balance_resource"
    /\ ret.kind = "Ok"
    /\ ret.outs = None
    /\ log = << Ev("get_state_value", KeyCode("account")) >>
    /\ data_store["account"] = 2

\* C16: a freshly constructed harness does not trace; tracing becomes active only in a
\* set_golden_file call that finds TRACE in its environment; once active it stays active
\* under every later call, a set_golden_file call that finds no TRACE included.
C16_Step ==
    /\ (~trace_dir /\ trace_dir') => (Calls({"set_golden_file"}) /\ env_seen')
    /\ trace_dir => trace_dir'
    /\ (Calls({"set_golden_file"}) /\ env_seen') => (trace_dir' /\ fs'.exists)

C16_TracingActivation == [](nops = 0 => ~trace_dir) /\ [][C16_Step]_vars

C16_Witness ==
    /\ trace_dir
    /\ ret.op = "set_golden_file"
    /\ ~env_seen
    /\ nops = 2

\* this step is a set_golden_file call that finds TRACE set and the trace directory of the
\* test already there
Regolden == Calls({"set_golden_file"}) /\ env_seen' /\ fs.exists

\* C17 as claimed: set_golden_file panics when tracing is configured and the trace
\* directory of the test already exists.
C17_ExistingDirFatal == [][Regolden => ret'.kind = "Panic"]_vars

\* C17 as amended: when tracing is configured and the trace directory of the test already
\* exists, set_golden_file removes it with everything in it, creates it again with the
\* name file and four empty subdirectories, and returns with tracing active.
C17_ExistingDirReplaced ==
    [][Regolden =>
          /\ ret'.kind = "Ok"
          /\ trace_dir'
          /\ fs'.exists
          /\ DOMAIN fs'.root = {"name"}
          /\ \A d \in SubDirs : fs'[d] = EmptyDir]_vars

C17_Witness ==
    /\ ret.op = "set_golden_file"
    /\ ret.kind = "Ok"
    /\ env_seen
    /\ trace_map[2] # << >>
    /\ fs.input = EmptyDir

\* thread t holds the file its sequence number names
Holds(t) == tracers[t].pc \in {"opened", "done"}

\* threads t and u are in calls that counted the same number in the same directory
Shared(t, u) ==
    /\ t # u
    /\ tracers[t].pc # "idle" /\ tracers[u].pc # "idle"
    /\ tracers[t].dir = tracers[u].dir
    /\ tracers[t].seq = tracers[u].seq

C18_Files ==
    /\ \A t, u \in Tracers : Shared(t, u) => ~(Holds(t) /\ Holds(u))
    /\ \A t, u \in Tracers :
          (Shared(t, u) /\ Holds(t) /\ tracers[u].pc # "counted") => tracers[u].pc = "panic"
    /\ \A t \in Tracers :
          tracers[t].pc = "done" => fs[tracers[t].dir][tracers[t].seq] = tracers[t].bytes

C18_Step ==
    ret' = ret =>
        \A d \in SubDirs : \A n \in DOMAIN fs[d] :
            /\ n \in DOMAIN fs'[d]
            /\ fs[d][n] # << >> => fs'[d][n] = fs[d][n]
            /\ fs'[d][n] # fs[d][n] =>
                  \E t \in Tracers : tracers[t].pc = "opened" /\ tracers[t].dir = d
                                     /\ tracers[t].seq = n

\* C18: when calls of trace on one subdirectory interleave, no two of them hold the file
\* of the same sequence number: of two calls that counted the same number one creates
\* the file and the other panics; a file, once written, is never changed, and each file
\* is written by the call that created it.
C18_NoCollision == []C18_Files /\ [][C18_Step]_vars

C18_Witness ==
    /\ Shared(1, 2)
    /\ tracers[1].pc = "done"
    /\ tracers[2].pc = "panic"
    /\ tracers[1].bytes # tracers[2].bytes

\* the last call recorded its TraceSeqMapping
Mapped == Recorded /\ Has("meta")

C19_Mapping ==
    Mapped =>
        /\ \E n \in DOMAIN fs.meta : fs.meta[n] = SerTraceMap(trace_map)
        /\ ~touched => fs.meta[Count("meta") - 1] = SerTraceMap(trace_map)
        /\ fs.data[trace_map[1]] = SerStore(data_store)
        /\ Len(trace_map[2]) = Len(vm.block)
        /\ \A i \in 1..Len(vm.block) : fs.input[trace_map[2][i]] = SerTxn(vm.block[i])
        /\ IF vm.output.ok
           THEN /\ Len(trace_map[3]) = Len(ret.outs)
                /\ \A i \in 1..Len(ret.outs) :
                      fs.output[trace_map[3][i]] = SerOutput(ret.outs[i])
           ELSE /\ trace_map[3] = << >>
                /\ fs.root["error"] = << ret.err >>

C19_FailedBlock ==
    (Calls({"execute_transaction_block"}) /\ trace_dir /\ ~vm'.output.ok)
        => fs'.output = fs.output

\* C19: the TraceSeqMapping recorded for a block is (the sequence number of the block's
\* snapshot, those of its input transactions in transaction order, those of its outputs
\* in result order): one input entry per transaction, one output entry per output of a
\* successful block, none for a block that ended in a VM failure, for which no file is
\* added to the output subdirectory.
C19_TraceSeqMapping == []C19_Mapping /\ [][C19_FailedBlock]_vars

C19_Witness ==
    /\ Mapped
    /\ ret.kind = "Err"
    /\ trace_map[1] = 1
    /\ Len(trace_map[2]) = 2
    /\ trace_map[3] = << >>
    /\ Count("output") = 1

\* C20 as claimed: a successful new_block leaves the block time at the previous block
\* time plus one and a successful new_block_with_timestamp(t) leaves it at t; in both the
\* block-metadata transaction executed carries the resulting block time, and the data
\* store is the previous one with the write set of that transaction's output applied.
C20_BlockAdvance ==
    [][(Calls(NewBlockOps) /\ ret'.kind = "Ok") =>
          /\ ret'.op = "new_block" => block_time' = block_time + 1
          /\ vm'.block = << BlockMetadata(block_time') >>
          /\ data_store' = add_write_set(data_store, Last(vm'.output.outs).write_set)]_vars

\* C21 as claimed: a new_block_with_timestamp or new_block call that panics leaves the
\* block time and the data store as they were before the call; the block time changes
\* only in a call that returns, having applied the output's write set.
C21_FailedAdvanceChangesNothing ==
    [][Calls(NewBlockOps) =>
          /\ ret'.kind = "Panic" => (block_time' = block_time /\ data_store' = data_store)
          /\ block_time' # block_time =>
                /\ ret'.kind = "Ok"
                /\ data_store' = add_write_set(data_store, Last(vm'.output.outs).write_set)]_vars

====
